---- MODULE Spec2Model ----
(***************************************************************************)
(* A model of photo_dog.py: the sequential gallery crawler (range mode,   *)
(* crawl) and its single listing page variant (crawl_list_page), with the *)
(* helpers they call: build_page_url, fetch, extract_image_url_from_html, *)
(* eval_keywords, guess_ext, sanitize_filename and download_image.        *)
(*                                                                         *)
(* Text is a sequence of one-character strings.  A URL is the text        *)
(* path[?query] on the one gallery host (scheme and host are the same for *)
(* every URL of a run and are left out).  The HTTP server and the file    *)
(* system are the environment: every answer they can give is drawn with   *)
(* \E from the sets below.                                                *)
(***************************************************************************)
EXTENDS Integers, Sequences, FiniteSets, TLC

\* ------------------------------------------------------------ bounds
\* The largest ID an open-ended crawl is followed to.
MaxPid == 3
\* The largest --max-misses drawn.
MaxMisses == 2

\* ------------------------------------------------------------ text
\* Python's None where the other values are strings; an optional number is the
\* empty sequence or <<n>>, and a missing text or URL is the empty text (the
\* code tests them by truth value).
None == "None"
Nothing == << >>
Some(n) == <<n>>
NoUrl == << >>

\* The characters of the model in code point order (sorted() compares by it);
\* "e_acute" stands for the one accented letter, U+00E9.
Alphabet ==
  << " ", "%", "&", ",", "-", ".", "/", "0", "1", "2", "3", "4", "5", "6", "7", "8",
     "9", "=", "?", "G", "J", "P", "_", "a", "b", "c", "d", "e", "f", "g", "h",
     "i", "j", "k", "l", "m", "n", "o", "p", "r", "s", "t", "u", "w", "x", "y",
     "e_acute" >>

Ord(c) == CHOOSE i \in 1..Len(Alphabet) : Alphabet[i] = c

Digits == {"0", "1", "2", "3", "4", "5", "6", "7", "8", "9"}
LowerLetters ==
  {"a", "b", "c", "d", "e", "f", "g", "h", "i", "j", "k", "l", "m", "n", "o",
   "p", "r", "s", "t", "u", "w", "x", "y"}
UpperLetters == {"G", "J", "P"}

\* str.lower() on one character.
LowerChar(c) ==
  CASE c = "G" -> "g"
    [] c = "J" -> "j"
    [] c = "P" -> "p"
    [] OTHER -> c

Lower(s) == [i \in 1..Len(s) |-> LowerChar(s[i])]

\* c.isalnum()
IsAlnum(c) == c \in Digits \cup LowerLetters \cup UpperLetters \cup {"e_acute"}

\* sub in s
Contains(s, sub) ==
  \E i \in 0..(Len(s) - Len(sub)) : SubSeq(s, i + 1, i + Len(sub)) = sub

\* s.rfind(c), 1-based; 0 when c is not in s.
RFind(s, c) ==
  IF \E i \in 1..Len(s) : s[i] = c
  THEN CHOOSE i \in 1..Len(s) : s[i] = c /\ \A j \in (i + 1)..Len(s) : s[j] # c
  ELSE 0

\* s.find(c), 1-based; 0 when c is not in s.
Find(s, c) ==
  IF \E i \in 1..Len(s) : s[i] = c
  THEN CHOOSE i \in 1..Len(s) : s[i] = c /\ \A j \in 1..(i - 1) : s[j] # c
  ELSE 0

\* s < t as Python compares strings.
RECURSIVE StrLess(_, _)
StrLess(s, t) ==
  IF t = << >> THEN FALSE
  ELSE IF s = << >> THEN TRUE
  ELSE IF s[1] # t[1] THEN Ord(s[1]) < Ord(t[1])
  ELSE StrLess(Tail(s), Tail(t))

\* sorted(S) for a set of texts.
RECURSIVE Sorted(_)
Sorted(S) ==
  IF S = {} THEN << >>
  ELSE LET m == CHOOSE x \in S : \A y \in S \ {x} : StrLess(x, y)
       IN <<m>> \o Sorted(S \ {m})

\* str(n) for n >= 0.
DigitChar(d) == Alphabet[Ord("0") + d]

RECURSIVE IntToStr(_)
IntToStr(n) ==
  IF n < 10 THEN <<DigitChar(n)>>
  ELSE IntToStr(n \div 10) \o <<DigitChar(n % 10)>>

\* f"{n:05d}"
RECURSIVE PadLeft(_, _)
PadLeft(s, w) == IF Len(s) >= w THEN s ELSE PadLeft(<<"0">> \o s, w)

\* urllib.parse.urlparse(url).path: the text before the query.
UrlPath(url) ==
  LET q == Find(url, "?")
  IN IF q = 0 THEN url ELSE SubSeq(url, 1, q - 1)

\* os.path.basename(path)
Basename(path) == SubSeq(path, RFind(path, "/") + 1, Len(path))

\* urllib.parse.urljoin(page_url, ref) for a reference on the same host: an
\* absolute path stands as it is, a relative one replaces the page's last segment.
UrlJoin(page_url, ref) ==
  IF ref # << >> /\ ref[1] = "/" THEN ref
  ELSE LET p == UrlPath(page_url)
       IN SubSeq(p, 1, RFind(p, "/")) \o ref

\* ------------------------------------------------------------ guess_ext
ImgExts ==
  { <<"j", "p", "g">>, <<"j", "p", "e", "g">>, <<"p", "n", "g">>,
    <<"g", "i", "f">>, <<"w", "e", "b", "p">>, <<"b", "m", "p">>,
    <<"t", "i", "f", "f">> }

\* Content types are atoms; CtMain is content_type.split(";")[0].strip().lower().
ContentTypes == {"image/jpeg", "image/png", "IMAGE/PNG; q=1", "text/html", ""}

CtMain(ct) == IF ct = "IMAGE/PNG; q=1" THEN "image/png" ELSE ct

CtLower(ct) == IF ct = "IMAGE/PNG; q=1" THEN "image/png; q=1" ELSE ct

IMG_EXT_FROM_CTYPE(ct) ==
  CASE ct = "image/jpeg" -> <<".", "j", "p", "g">>
    [] ct = "image/jpg" -> <<".", "j", "p", "g">>
    [] ct = "image/png" -> <<".", "p", "n", "g">>
    [] ct = "image/gif" -> <<".", "g", "i", "f">>
    [] ct = "image/webp" -> <<".", "w", "e", "b", "p">>
    [] ct = "image/bmp" -> <<".", "b", "m", "p">>
    [] ct = "image/tiff" -> <<".", "t", "i", "f", "f">>
    [] OTHER -> << >>

\* resp.headers.get("Content-Type", "").lower().startswith("image/")
IsImageCtype(ct) ==
  CtLower(ct) \in {"image/jpeg", "image/png", "image/png; q=1"}

\* Lines 38-41: the extension of the URL's path, empty when it has none or
\* when it is too long or has other characters.
UrlExt(ext) ==
  IF Len(ext) <= 6 /\ \A i \in 1..Len(ext) : IsAlnum(ext[i]) \/ ext[i] \in {".", "_"}
  THEN ext ELSE << >>

PathExt(path, dot) ==
  IF dot > 0 THEN UrlExt(Lower(SubSeq(path, dot, Len(path)))) ELSE << >>

\* Lines 43-46: the extension of the content type, empty when it has none.
CtypeExt(content_type) ==
  IF content_type # None /\ content_type # ""
  THEN IMG_EXT_FROM_CTYPE(CtMain(content_type)) ELSE << >>

\* Lines 35-47: the first of the three that is there.
\* The content type looked at before the URL.
FirstExtCtypeFirst(fromUrl, fromCtype) ==
  IF fromCtype # << >> THEN fromCtype
  ELSE IF fromUrl # << >> THEN fromUrl
  ELSE <<".", "j", "p", "g">>

FirstExt(fromUrl, fromCtype) ==
  IF fromUrl # << >> THEN fromUrl
  ELSE IF fromCtype # << >> THEN fromCtype
  ELSE <<".", "j", "p", "g">>

PathOfExt(path) == PathExt(path, RFind(path, "."))

guess_ext(url, content_type) ==
  FirstExt(PathOfExt(UrlPath(url)), CtypeExt(content_type))

\* ------------------------------------------------------------ sanitize_filename
\* \w, hyphen and dot: the characters re.sub keeps.
IsWordChar(c) == IsAlnum(c) \/ c \in {"_", "-", "."}

\* re.sub(r"[^\w\-.]+", "_", name): every run of other characters becomes one "_".
RECURSIVE SubRuns(_, _)
SubRuns(s, inRun) ==
  IF s = << >> THEN << >>
  ELSE IF IsWordChar(s[1]) THEN <<s[1]>> \o SubRuns(Tail(s), FALSE)
  ELSE IF inRun THEN SubRuns(Tail(s), TRUE)
  ELSE <<"_">> \o SubRuns(Tail(s), TRUE)

\* s.strip(chars)
RECURSIVE LStrip(_, _)
LStrip(s, chars) ==
  IF s # << >> /\ s[1] \in chars THEN LStrip(Tail(s), chars) ELSE s

RECURSIVE RStrip(_, _)
RStrip(s, chars) ==
  IF s # << >> /\ s[Len(s)] \in chars
  THEN RStrip(SubSeq(s, 1, Len(s) - 1), chars) ELSE s

Strip(s, chars) == RStrip(LStrip(s, chars), chars)

sanitize_filename(name) ==
  LET n == Strip(SubRuns(name, FALSE), {".", "_"})
  IN IF n = << >> THEN <<"f", "i", "l", "e">> ELSE n

\* ------------------------------------------------------------ normalize_for_match
\* urllib.parse.unquote: %XX becomes the character it encodes.
RECURSIVE Unquote(_)
Unquote(s) ==
  IF s = << >> THEN << >>
  ELSE IF Len(s) >= 3 /\ SubSeq(s, 1, 3) = <<"%", "2", "0">>
  THEN <<" ">> \o Unquote(SubSeq(s, 4, Len(s)))
  ELSE IF Len(s) >= 3 /\ SubSeq(s, 1, 3) = <<"%", "4", "7">>
  THEN <<"G">> \o Unquote(SubSeq(s, 4, Len(s)))
  ELSE <<s[1]>> \o Unquote(Tail(s))

\* unicodedata.normalize("NFKD", .) with the combining marks dropped.
StripAccents(s) == [i \in 1..Len(s) |-> IF s[i] = "e_acute" THEN "e" ELSE s[i]]

\* re.sub(r"[^0-9a-z]+", " ", text)
RECURSIVE SubNonAlnum(_, _)
SubNonAlnum(s, inRun) ==
  IF s = << >> THEN << >>
  ELSE IF s[1] \in Digits \cup LowerLetters
  THEN <<s[1]>> \o SubNonAlnum(Tail(s), FALSE)
  ELSE IF inRun THEN SubNonAlnum(Tail(s), TRUE)
  ELSE <<" ">> \o SubNonAlnum(Tail(s), TRUE)

normalize_for_match(text) ==
  IF text = << >> THEN << >>
  ELSE Strip(SubNonAlnum(StripAccents(Lower(Unquote(text))), FALSE), {" "})

\* ------------------------------------------------------------ parse_keywords
\* v.split(",")
RECURSIVE SplitComma(_)
SplitComma(v) ==
  LET c == Find(v, ",")
  IN IF c = 0 THEN <<v>>
     ELSE <<SubSeq(v, 1, c - 1)>> \o SplitComma(SubSeq(v, c + 1, Len(v)))

RECURSIVE NormTerms(_)
NormTerms(parts) ==
  IF parts = << >> THEN << >>
  ELSE LET n == normalize_for_match(Strip(parts[1], {" "}))
       IN (IF n # << >> THEN <<n>> ELSE << >>) \o NormTerms(Tail(parts))

RECURSIVE parse_keywords(_)
parse_keywords(values) ==
  IF values = << >> THEN << >>
  ELSE (IF values[1] = << >> THEN << >> ELSE NormTerms(SplitComma(values[1])))
       \o parse_keywords(Tail(values))

\* ------------------------------------------------------------ eval_keywords
\* Lines 149-155: the text the terms are looked for in.
FilterBase(path, target) == IF target = "filename" THEN Basename(path) ELSE path

\* Lines 158-160: the positions of the excluded terms found.
ExcludeHits(norm, excludes) ==
  {i \in 1..Len(excludes) : excludes[i] # << >> /\ Contains(norm, excludes[i])}

\* Line 164
IncludeHits(norm, includes) ==
  Cardinality({i \in 1..Len(includes) : Contains(norm, includes[i])})

\* The verdict with the included terms looked at before the excluded ones.
VerdictIncludesFirst(norm, exHit, hits, includes, excludes, any_mode) ==
  IF includes # << >> /\ (IF any_mode THEN hits >= 1 ELSE hits = Len(includes))
  THEN [ok |-> TRUE, reason |-> "ok", norm |-> norm, hits |-> hits,
        need |-> IF any_mode THEN 1 ELSE Len(includes), ex |-> << >>]
  ELSE IF exHit # {}
  THEN [ok |-> FALSE, reason |-> "excluded", norm |-> norm, hits |-> 0,
        need |-> Len(includes),
        ex |-> excludes[CHOOSE i \in exHit : \A j \in exHit : i <= j]]
  ELSE [ok |-> includes = << >>,
        reason |-> IF includes = << >> THEN "ok"
                   ELSE IF any_mode THEN "no-include-any" ELSE "missing-includes",
        norm |-> norm, hits |-> hits,
        need |-> IF includes = << >> THEN 0 ELSE IF any_mode THEN 1 ELSE Len(includes),
        ex |-> << >>]

\* The verdict with every mode taken for "any".
VerdictAlwaysAny(norm, exHit, hits, includes, excludes, any_mode) ==
  IF exHit # {}
  THEN [ok |-> FALSE, reason |-> "excluded", norm |-> norm, hits |-> 0,
        need |-> Len(includes),
        ex |-> excludes[CHOOSE i \in exHit : \A j \in exHit : i <= j]]
  ELSE IF includes # << >>
  THEN [ok |-> hits >= 1,
        reason |-> IF hits >= 1 THEN "ok" ELSE "no-include-any",
        norm |-> norm, hits |-> hits, need |-> 1, ex |-> << >>]
  ELSE [ok |-> TRUE, reason |-> "ok", norm |-> norm, hits |-> 0, need |-> 0,
        ex |-> << >>]

\* Lines 158-171: the verdict.
Verdict(norm, exHit, hits, includes, excludes, any_mode) ==
  IF exHit # {}
  THEN [ok |-> FALSE, reason |-> "excluded", norm |-> norm, hits |-> 0,
        need |-> Len(includes),
        ex |-> excludes[CHOOSE i \in exHit : \A j \in exHit : i <= j]]
  ELSE IF includes # << >>
  THEN IF any_mode
       THEN [ok |-> hits >= 1,
             reason |-> IF hits >= 1 THEN "ok" ELSE "no-include-any",
             norm |-> norm, hits |-> hits, need |-> 1, ex |-> << >>]
       ELSE [ok |-> hits = Len(includes),
             reason |-> IF hits = Len(includes) THEN "ok" ELSE "missing-includes",
             norm |-> norm, hits |-> hits, need |-> Len(includes), ex |-> << >>]
  ELSE [ok |-> TRUE, reason |-> "ok", norm |-> norm, hits |-> 0, need |-> 0,
        ex |-> << >>]

MatchTerms(norm, includes, excludes, any_mode) ==
  Verdict(norm, ExcludeHits(norm, excludes), IncludeHits(norm, includes),
          includes, excludes, any_mode)

eval_keywords(img_url, includes, excludes, any_mode, target) ==
  MatchTerms(normalize_for_match(FilterBase(UrlPath(img_url), target)),
             includes, excludes, any_mode)

\* ------------------------------------------------------------ extract_image_url_from_html
\* re.search(r"\.(jpg|jpeg|png|gif|webp|bmp|tiff)(\?.*)?$", s, re.I)
ImageLike(s) ==
  \E i \in 1..Len(s) : \E e \in ImgExts :
    /\ s[i] = "."
    /\ i + Len(e) <= Len(s)
    /\ Lower(SubSeq(s, i + 1, i + Len(e))) = e
    /\ (i + Len(e) = Len(s) \/ s[i + Len(e) + 1] = "?")

\* The selectors tried, in order; the last one, img, matches every image element.
Selectors == <<"#the_image", ".display_media", ".image", ".img-responsive", "img">>

\* An HTML document is [og, imgs, anchors]: the content of its og:image meta tag
\* (empty without one), its img elements [sel, src] in document order (sel is the
\* id or class selector the element answers to, "img" for a plain one) and the
\* href of its anchors in document order.
SelectSrc(imgs, sel) ==
  SelectSeq(imgs, LAMBDA e : (sel = "img" \/ e.sel = sel) /\ e.src # << >>)

RECURSIVE SrcCandidates(_, _)
SrcCandidates(imgs, sels) ==
  IF sels = << >> THEN << >>
  ELSE [i \in 1..Len(SelectSrc(imgs, sels[1])) |-> SelectSrc(imgs, sels[1])[i].src]
       \o SrcCandidates(imgs, Tail(sels))

\* Lines 83-88: the sources that look like the picture.
ImgLike(srcs) ==
  SelectSeq(srcs,
            LAMBDA src : ImageLike(src)
                         \/ Contains(src, <<"a", "l", "b", "u", "m", "s", "/">>)
                         \/ Contains(src, <<"f", "u", "l", "l", "s", "i", "z", "e">>))

\* Lines 66-106: the first of og:image, an image element and an image link.
FirstImage(page_url, og, img_like, hrefs) ==
  IF og # << >> THEN UrlJoin(page_url, og)
  ELSE IF img_like # << >> THEN UrlJoin(page_url, img_like[1])
  ELSE IF hrefs # << >> THEN UrlJoin(page_url, hrefs[1])
  ELSE NoUrl

extract_image_url_from_html(html, page_url) ==
  FirstImage(page_url, html.og, ImgLike(SrcCandidates(html.imgs, Selectors)),
             SelectSeq(html.anchors, ImageLike))

\* ------------------------------------------------------------ build_page_url
build_page_url(base_url, id, category) ==
  LET lower == Lower(base_url)
      coppermine == base_url \o <<"?", "p", "i", "d", "=">> \o IntToStr(id)
                    \o <<"&", "f", "u", "l", "l", "s", "i", "z", "e", "=", "1">>
  IN IF Contains(lower, <<"d", "i", "s", "p", "l", "a", "y", "i", "m", "a", "g", "e",
                          ".", "p", "h", "p">>)
     THEN coppermine
     ELSE IF Contains(lower, <<"p", "i", "c", "t", "u", "r", "e", ".", "p", "h", "p">>)
     THEN IF category # Nothing
          THEN base_url \o <<"?", "/">> \o IntToStr(id)
               \o <<"/", "c", "a", "t", "e", "g", "o", "r", "y", "/">>
               \o IntToStr(category[1])
          ELSE base_url \o <<"?", "/">> \o IntToStr(id)
     ELSE coppermine

\* ------------------------------------------------------------ fetch
\* An answer of the server to one request is [kind, status, ctype, html]: kind
\* "resp" with its status, or "exc" for a requests.RequestException.  NoResp is
\* fetch's None.
NoDoc == [og |-> << >>, imgs |-> << >>, anchors |-> << >>]
NoResp == [kind |-> "none", status |-> 0, ctype |-> "", html |-> NoDoc]

fetch(ans) ==
  IF ans.kind = "exc" THEN NoResp
  ELSE IF ans.status = 200 THEN ans
  ELSE IF ans.status \in {403, 404} THEN NoResp
  ELSE NoResp

\* ------------------------------------------------------------ the gallery
\* --base values: a Coppermine viewer, a Piwigo viewer, a viewer of neither
\* dialect, and a listing page.
BaseDisplay ==
  <<"/", "d", "i", "s", "p", "l", "a", "y", "i", "m", "a", "g", "e", ".", "p", "h", "p">>
BasePicture == <<"/", "p", "i", "c", "t", "u", "r", "e", ".", "p", "h", "p">>
BaseView == <<"/", "g", "/", "v", "i", "e", "w">>
BaseListing == <<"/", "w", "/">>

Viewers ==
  { <<BaseDisplay, Nothing>>, <<BasePicture, Some(7)>>, <<BaseView, Nothing>> }

Resp(status, ctype, html) ==
  [kind |-> "resp", status |-> status, ctype |-> ctype, html |-> html]
Exc == [kind |-> "exc", status |-> 0, ctype |-> "", html |-> NoDoc]

Img(sel, src) == [sel |-> sel, src |-> src]

\* Viewer pages: one with an og:image tag, one whose main image element has a
\* relative source, one with an image link only and one with no image at all.
DocOg ==
  [og |-> <<"/", "a", "l", "b", "u", "m", "s", "/", "f", "u", "l", "l", ".", "p", "n", "g">>,
   imgs |-> <<Img("img", <<"/", "l", "o", "g", "o", ".", "g", "i", "f">>)>>,
   anchors |-> << >>]
DocImg ==
  [og |-> << >>,
   imgs |-> <<Img("img", <<"/", "l", "o", "g", "o">>),
              Img("#the_image", <<"s", "u", "n", "s", "e", "t", ".", "J", "P", "G">>)>>,
   anchors |-> << >>]
DocAnchor ==
  [og |-> << >>,
   imgs |-> <<Img("img", << >>)>>,
   anchors |-> << <<"/", "a", "b", "o", "u", "t">>,
                  <<"/", "a", "/", "r", "a", "i", "n", "y", "_", "d", "a", "y", ".", "j", "p", "g">> >>]
DocNone ==
  [og |-> << >>,
   imgs |-> <<Img(".image", <<"/", "l", "o", "g", "o">>)>>,
   anchors |-> << <<"/", "a", "b", "o", "u", "t">> >>]

\* A listing page: three img tags and four links, two distinct image URLs among
\* them, one of them with a query; and a listing page with no image.
DocListing ==
  [og |-> << >>,
   imgs |-> <<Img("img", <<"a", ".", "j", "p", "g">>),
              Img("img", <<"/", "w", "/", "a", ".", "j", "p", "g">>),
              Img("img", << >>)>>,
   anchors |-> << <<"a", ".", "j", "p", "g">>,
                  <<"/", "w", "/", "s", "u", "n", "s", "e", "t", ".", "J", "P", "G", "?", "x">>,
                  <<"/", "a", "b", "o", "u", "t">>,
                  <<"/", "w", "/", "f", "u", "l", "l">> >>]
DocEmpty == [og |-> << >>, imgs |-> << >>, anchors |-> << <<"/", "a", "b", "o", "u", "t">> >>]

\* What the server can answer to the GET of a viewer page.
PageAnswers ==
  { Resp(200, "image/jpeg", NoDoc), Resp(200, "text/html", DocOg),
    Resp(200, "text/html", DocImg), Resp(200, "text/html", DocAnchor),
    Resp(200, "text/html", DocNone), Resp(403, "text/html", NoDoc),
    Resp(404, "text/html", NoDoc), Resp(500, "text/html", NoDoc), Exc }

\* What it can answer to the GET of the listing page.
ListAnswers ==
  { Resp(200, "text/html", DocListing), Resp(200, "text/html", DocEmpty),
    Resp(200, "IMAGE/PNG; q=1", NoDoc), Resp(404, "text/html", NoDoc), Exc }

\* What it can answer to the HEAD and to the streaming GET of an image URL.
HeadAnswers ==
  { Resp(200, "image/jpeg", NoDoc), Resp(200, "IMAGE/PNG; q=1", NoDoc),
    Resp(405, "", NoDoc), Exc }
GetAnswers == { Resp(200, "image/jpeg", NoDoc), Resp(404, "text/html", NoDoc), Exc }

\* ------------------------------------------------------------ arguments
Filter(include, exclude, include_any, filter_on) ==
  [include |-> include, exclude |-> exclude, include_any |-> include_any,
   filter_on |-> filter_on]

\* --include/--exclude as typed: none; --include "Sunset"; --include
\* "sunset, rainy" --include-any --exclude full --filter-on filename.
Filters ==
  { Filter(<< >>, << >>, FALSE, "auto"),
    Filter(<< <<"S", "u", "n", "s", "e", "t">> >>, << >>, FALSE, "auto"),
    Filter(<< <<"s", "u", "n", "s", "e", "t", ",", " ", "r", "a", "i", "n", "y">> >>,
           << <<"f", "u", "l", "l">> >>, TRUE, "filename") }

Args(mode, base, cat, start, end, delay, mm, f, dry) ==
  [mode |-> mode, base_url |-> base, category |-> cat, start_pid |-> start,
   end_pid |-> end, delay |-> delay, max_misses |-> mm, include |-> f.include,
   exclude |-> f.exclude, include_any |-> f.include_any, filter_on |-> f.filter_on,
   dry_run |-> dry]

RangeArgs ==
  { Args("auto", v[1], v[2], Some(1), end, delay, mm, f, dry) :
      v \in Viewers \ {<<BasePicture, Some(7)>>},
      end \in {Nothing, Some(0), Some(MaxPid - 1)}, delay \in {0, 2},
      mm \in (-1)..MaxMisses, f \in Filters, dry \in BOOLEAN }
  \cup { Args("auto", BasePicture, Some(7), Some(1), Nothing, 0, MaxMisses, f, dry) :
           f \in Filters, dry \in BOOLEAN }

ListArgs ==
  { Args("list", BaseListing, Nothing, Nothing, Nothing, delay, 50, f, dry) :
      delay \in {0, 2}, f \in Filters, dry \in BOOLEAN }

\* --mode auto without --start.
BadArgs ==
  { Args("auto", BaseDisplay, Nothing, Nothing, Nothing, 2, 50, f, FALSE) :
      f \in Filters }

\* ------------------------------------------------------------ what the run computes
\* The pure helpers are evaluated once over the URLs, documents and arguments of
\* the gallery above; the actions read the results.
\* A table is computed once, when it is first compared.
Table(f) == CHOOSE g \in {f} : g = g

Pids == 0..(MaxPid + 1)

PageUrlOf ==
  Table([v \in Viewers |-> Table([p \in Pids |-> build_page_url(v[1], p, v[2])])])

PageUrls == {PageUrlOf[v][p] : v \in Viewers, p \in Pids}

HtmlDocs == {DocOg, DocImg, DocAnchor, DocNone, NoDoc}

ExtractOf ==
  Table([d \in HtmlDocs |->
           Table([u \in PageUrls |-> extract_image_url_from_html(d, u)])])

\* Lines 408-416: the image sources and the links of the page, joined to its URL.
Hrefs(html, base_url) ==
  {UrlJoin(base_url, html.imgs[i].src) :
     i \in {j \in 1..Len(html.imgs) : html.imgs[j].src # << >>}}
  \cup {UrlJoin(base_url, html.anchors[i]) : i \in 1..Len(html.anchors)}

\* The candidates kept in a list, in document order, a URL as often as it occurs.
ListCandidatesAll(resp, base_url) ==
  IF IsImageCtype(resp.ctype) THEN <<base_url>>
  ELSE SelectSeq([i \in 1..Len(resp.html.imgs) |->
                    UrlJoin(base_url, resp.html.imgs[i].src)]
                 \o [i \in 1..Len(resp.html.anchors) |->
                       UrlJoin(base_url, resp.html.anchors[i])], ImageLike)

\* Lines 402-427 and 439: the candidates of a listing page, sorted.
ListCandidates(resp, base_url) ==
  IF IsImageCtype(resp.ctype) THEN <<base_url>>
  ELSE Sorted({h \in Hrefs(resp.html, base_url) : ImageLike(h)})

ListCandidatesOf ==
  Table([a \in {x \in ListAnswers : fetch(x) # NoResp} |->
           ListCandidates(a, BaseListing)])

Range(s) == {s[i] : i \in 1..Len(s)}

\* Every URL a run can ask a download of.
Urls ==
  PageUrls
  \cup {extract_image_url_from_html(d, u) : d \in HtmlDocs, u \in PageUrls}
  \cup UNION {Range(ListCandidates(a, BaseListing)) :
                a \in {x \in ListAnswers : fetch(x) # NoResp}}

PidStem(p) == <<"p", "i", "d", "_">> \o IntToStr(p)
ListStem(i) == <<"l", "i", "s", "t", "_">> \o PadLeft(IntToStr(i), 5)
Stems ==
  {PidStem(p) : p \in Pids}
  \cup {ListStem(i) : i \in 0..(Len(DocListing.imgs) + Len(DocListing.anchors))}

\* Lines 209-211: the name of the file of a download.
FileNameOf ==
  Table([u \in Urls |->
    Table([s \in Stems |->
      Table([c \in ContentTypes \cup {None} |->
               sanitize_filename(s \o guess_ext(u, c))])])])

\* Lines 282-283, 299-301, 321-323, 391-392 and 440-442: the verdict of the filter.
VerdictOf ==
  Table([f \in Filters |->
    Table([u \in Urls |->
      eval_keywords(u, parse_keywords(f.include), parse_keywords(f.exclude),
                    f.include_any,
                    IF f.filter_on = "filename" THEN "filename" ELSE "url")])])

\* ------------------------------------------------------------ download_image
\* The environment of one download is [head, get, write, unlink]: the server's
\* answers to the HEAD and to the streaming GET, what writing the body does
\* ("ok", "open_fails": the exception comes before the file is created,
\* "fails_midway": it comes with a part of the body on disk) and what
\* path.exists()/path.unlink() do in the handler ("ok", "exc": they raise).
\* The file system is a function from the names in the output directory to
\* "full" or "partial".  An event of the log is [op, arg]; "fetch" is the GET
\* of fetch() for a page, "HEAD" and "GET" are the requests of download_image.
Ev(op, arg) == [op |-> op, arg |-> arg]

WriteFile(fs, fname, content) ==
  [n \in DOMAIN fs \cup {fname} |-> IF n = fname THEN content ELSE fs[n]]

RemoveFile(fs, fname) == [n \in DOMAIN fs \ {fname} |-> fs[n]]

\* Lines 230-236: the handler of a failed write.
CleanupPartial(fs, fname, unlink) ==
  IF fname \in DOMAIN fs
  THEN IF unlink = "ok"
       THEN [files |-> RemoveFile(fs, fname), log |-> <<Ev("unlink", fname)>>]
       ELSE [files |-> fs, log |-> <<Ev("unlink_failed", fname)>>]
  ELSE [files |-> fs, log |-> << >>]

\* Lines 224-236: the body streamed to the path.
Aborted(events, c) == [ok |-> FALSE, files |-> c.files, log |-> events \o c.log]

StreamToDisk(fs, fname, env) ==
  CASE env.write = "ok" ->
         [ok |-> TRUE, files |-> WriteFile(fs, fname, "full"),
          log |-> <<Ev("open", fname), Ev("write", fname)>>]
    [] env.write = "open_fails" ->
         Aborted(<<Ev("open_failed", fname)>>, CleanupPartial(fs, fname, env.unlink))
    [] OTHER ->
         Aborted(<<Ev("open", fname), Ev("write_failed", fname)>>,
                 CleanupPartial(WriteFile(fs, fname, "partial"), fname, env.unlink))

\* Lines 198-207: the content type the HEAD gives.
HeadType(env) ==
  IF env.head.kind = "resp" /\ env.head.status = 200 THEN env.head.ctype ELSE None

\* Lines 215-236: the GET and the write.
AfterGet(img_url, w) ==
  [ok |-> w.ok, files |-> w.files, log |-> <<Ev("GET", img_url)>> \o w.log]

GetAndStore(img_url, fname, fs, env) ==
  IF fetch(env.get) = NoResp
  THEN [ok |-> FALSE, files |-> fs, log |-> <<Ev("GET", img_url)>>]
  ELSE AfterGet(img_url, StreamToDisk(fs, fname, env))

\* What download_image gives after its GET: [ok, files, log, asked, fname, existed].
Downloaded(img_url, fname, existed, g, env) ==
  [ok |-> g.ok, files |-> g.files, log |-> <<Ev("HEAD", img_url)>> \o g.log,
   asked |-> {<<"HEAD", img_url, env.head>>, <<"GET", img_url, env.get>>,
              <<"BODY", img_url, env.write>>},
   fname |-> fname, existed |-> existed]

\* Lines 212-236 without the test of line 212.
DownloadAlways(img_url, fname, fs, env) ==
  Downloaded(img_url, fname, fname \in DOMAIN fs,
             GetAndStore(img_url, fname, fs, env), env)

\* Lines 212-236: the file is there, or it is fetched.
Download(img_url, fname, fs, env) ==
  IF fname \in DOMAIN fs
  THEN [ok |-> TRUE, files |-> fs, log |-> <<Ev("HEAD", img_url)>>,
        asked |-> {<<"HEAD", img_url, env.head>>},
        fname |-> fname, existed |-> TRUE]
  ELSE Downloaded(img_url, fname, FALSE, GetAndStore(img_url, fname, fs, env), env)

\* Lines 196-236.
download_image(img_url, filename_stem, fs, env) ==
  Download(img_url, FileNameOf[img_url][filename_stem][HeadType(env)], fs, env)

NoDownload == [head |-> Exc, get |-> Exc, write |-> "ok", unlink |-> "ok"]

\* The environments of a download: what is not reached is fixed, so that no two
\* of them give the same run.
DownloadEnvs ==
  { [head |-> h, get |-> g, write |-> "ok", unlink |-> "ok"] :
      h \in HeadAnswers, g \in GetAnswers }
  \cup { [head |-> h, get |-> Resp(200, "image/jpeg", NoDoc), write |-> w, unlink |-> u] :
           h \in HeadAnswers, w \in {"open_fails", "fails_midway"}, u \in {"ok", "exc"} }

\* ------------------------------------------------------------ state
VARIABLES
  args,        \* the command line, as parsed
  pc,          \* where the program is
  exit,        \* the exit status, Nothing while running
  stderr,      \* whether a diagnostic was written to the error stream
  out_dir,     \* whether the output directory exists
  files,       \* the output directory: name -> "full" | "partial"
  pid, misses, total_ok, total_seen,           \* crawl's CrawlState
  candidates, idx, matched, downloaded,        \* crawl_list_page's loop
  last,        \* the last candidate processed: what was seen and decided
  log,         \* the requests, file operations, sleeps and reports of the last step
  outcomes,    \* [id, outcome] of every candidate of this run, in order
  run,         \* 1 in the first run of the program, 2 in a second one
  prev,        \* what the first run left: [files, wfail]
  wfail,       \* whether a write to the output directory failed in this run
  touched,     \* whether this run created, wrote or deleted a file
  served,      \* the answers the server has given, as <<method, url, answer>>
  call,        \* the arguments of a helper called on its own, None in a run
  result       \* what the helper returned, None before it has

vars ==
  <<args, pc, exit, stderr, out_dir, files, pid, misses, total_ok, total_seen,
    candidates, idx, matched, downloaded, last, log, outcomes, run, prev, wfail,
    touched, served, call, result>>

crawlVars == <<pid, misses, total_ok, total_seen>>
listVars == <<candidates, idx, matched, downloaded>>
histVars == <<run, prev>>
callVars == <<call, result>>

\* download is "none" when download_image was not called, else "ok" or "failed";
\* existed is what path.exists() answered at line 212.
NoLast ==
  [id |-> 0, page |-> NoResp, candidate |-> NoUrl, reason |-> None,
   outcome |-> None, download |-> "none", fname |-> << >>, existed |-> FALSE]

EmptyDir == [n \in {} |-> "full"]

\* An output directory that earlier runs have filled.
OldDir ==
  [n \in { <<"p", "i", "d", "_", "2", ".", "p", "n", "g">>,
           <<"l", "i", "s", "t", "_", "0", "0", "0", "0", "0", ".", "j", "p", "g">> }
     |-> "full"]

Fresh ==
  /\ pc = "main"
  /\ exit = Nothing
  /\ stderr = FALSE
  /\ pid = 0 /\ misses = 0 /\ total_ok = 0 /\ total_seen = 0
  /\ candidates = << >> /\ idx = 0 /\ matched = 0 /\ downloaded = 0
  /\ last = NoLast
  /\ log = << >>
  /\ outcomes = << >>
  /\ wfail = FALSE
  /\ touched = FALSE
  /\ call = None
  /\ result = None

Init ==
  /\ args \in RangeArgs \cup ListArgs \cup BadArgs
  /\ Fresh
  /\ files \in {EmptyDir, OldDir}
  /\ out_dir = (files # EmptyDir)
  /\ run = 1
  /\ prev = [files |-> EmptyDir, wfail |-> FALSE]
  /\ served = {}

\* ------------------------------------------------------------ main
\* The dispatch with the missing --start reported and the exit status left at 0.
MainExitsZero ==
  /\ pc = "main"
  /\ IF args.mode = "list"
     THEN pc' = "crawl_list_page" /\ UNCHANGED <<exit, stderr>>
     ELSE IF args.start_pid = Nothing
     THEN pc' = "exit" /\ exit' = Some(0) /\ stderr' = TRUE
     ELSE pc' = "crawl" /\ UNCHANGED <<exit, stderr>>
  /\ log' = << >>
  /\ UNCHANGED <<args, out_dir, files, crawlVars, listVars, last, outcomes,
                 histVars, callVars, wfail, touched, served>>

\* Lines 542-576: the dispatch on --mode and the check of --start.
Main ==
  /\ pc = "main"
  /\ IF args.mode = "list"
     THEN pc' = "crawl_list_page" /\ UNCHANGED <<exit, stderr>>
     ELSE IF args.start_pid = Nothing
     THEN pc' = "exit" /\ exit' = Some(2) /\ stderr' = TRUE
     ELSE pc' = "crawl" /\ UNCHANGED <<exit, stderr>>
  /\ log' = << >>
  /\ UNCHANGED <<args, out_dir, files, crawlVars, listVars, last, outcomes,
                 histVars, callVars, wfail, touched, served>>

\* ------------------------------------------------------------ crawl
TheFilter == Filter(args.include, args.exclude, args.include_any, args.filter_on)

\* Lines 271-283: the output directory, the session and the counters.
CrawlStart ==
  /\ pc = "crawl"
  /\ out_dir' = TRUE
  /\ misses' = 0
  /\ pid' = args.start_pid[1]
  /\ total_ok' = 0
  /\ total_seen' = 0
  /\ pc' = "Running"
  /\ log' = <<Ev("mkdir", "out")>>
  /\ UNCHANGED <<args, exit, stderr, files, listVars, last, outcomes, histVars, callVars,
                 wfail, touched, served>>

\* Line 286: the test at the top of the loop.
RangeExceeded(end_pid, p) == end_pid # Nothing /\ p > end_pid[1]

\* The early stop with > for >=, and taken whether or not an end ID was given.
MissThresholdStrict(end_pid, m, max_misses) == end_pid = Nothing /\ m > max_misses
MissThresholdAlways(end_pid, m, max_misses) == m >= max_misses

\* The early stop taken only once there is a miss.
MissThresholdAfterMiss(end_pid, m, max_misses) ==
  end_pid = Nothing /\ m >= max_misses /\ m > 0

\* Line 360: the early stop.
MissThreshold(end_pid, m, max_misses) == end_pid = Nothing /\ m >= max_misses

\* An outcome that takes a failure for a discard.
OutcomeLenient(ok, skipped) == IF ok THEN "OK" ELSE "SKIP"

\* Lines 345-357: the outcome of an iteration and what it does to the counters.
Outcome(ok, skipped) == IF ok THEN "OK" ELSE IF skipped THEN "SKIP" ELSE "MISS"

\* A discard counted as a miss.
MissesAfterStrict(outcome, m) == IF outcome = "OK" THEN 0 ELSE m + 1

\* An OK that leaves the counter as it is.
MissesAfterNoReset(outcome, m) == IF outcome = "MISS" THEN m + 1 ELSE m

MissesAfter(outcome, m) ==
  CASE outcome = "OK" -> 0
    [] outcome = "SKIP" -> m
    [] OTHER -> m + 1

\* A discard counted as a download.
TotalOkAfterNoMiss(outcome, n) == IF outcome # "MISS" THEN n + 1 ELSE n

TotalOkAfter(outcome, n) == IF outcome = "OK" THEN n + 1 ELSE n

\* No pause at all.
PauseNever(delay) == << >>

\* Lines 365-366 and 461-462: the pause.
Pause(delay) == IF delay > 0 THEN <<Ev("sleep", delay)>> ELSE << >>

\* Lines 299-315, 321-337 and 440-460: a candidate is filtered, then matched
\* (dry run) or downloaded.  The result is
\* [ok, skipped, reason, download, files, log, asked, candidate, fname, existed].
Unresolved(fs) ==
  [ok |-> FALSE, skipped |-> FALSE, reason |-> None, download |-> "none",
   files |-> fs, log |-> << >>, asked |-> {}, candidate |-> NoUrl,
   fname |-> << >>, existed |-> FALSE]

\* The candidate of a dry run downloaded like any other.
ProcessedNoDryRun(candidate_url, v, fs, d) ==
  IF ~v.ok
  THEN [Unresolved(fs) EXCEPT !.skipped = TRUE, !.reason = v.reason,
                              !.log = <<Ev("print", "[SKIP]")>>,
                              !.candidate = candidate_url]
  ELSE [ok |-> d.ok, skipped |-> FALSE, reason |-> v.reason,
        download |-> IF d.ok THEN "ok" ELSE "failed", files |-> d.files,
        log |-> d.log, asked |-> d.asked, candidate |-> candidate_url,
        fname |-> d.fname, existed |-> d.existed]

Processed(candidate_url, v, fs, d) ==
  IF ~v.ok
  THEN [Unresolved(fs) EXCEPT !.skipped = TRUE, !.reason = v.reason,
                              !.log = <<Ev("print", "[SKIP]")>>,
                              !.candidate = candidate_url]
  ELSE IF args.dry_run
  THEN [Unresolved(fs) EXCEPT !.ok = TRUE, !.reason = v.reason,
                              !.log = <<Ev("print", "[MATCH]")>>,
                              !.candidate = candidate_url]
  ELSE [ok |-> d.ok, skipped |-> FALSE, reason |-> v.reason,
        download |-> IF d.ok THEN "ok" ELSE "failed", files |-> d.files,
        log |-> d.log, asked |-> d.asked, candidate |-> candidate_url,
        fname |-> d.fname, existed |-> d.existed]

ProcessCandidate(candidate_url, stem, fs, dl) ==
  Processed(candidate_url, VerdictOf[TheFilter][candidate_url], fs,
            download_image(candidate_url, stem, fs, dl))

\* Lines 292-341: the candidate of an ID, if the page gives one.
Candidate(page_url, resp) ==
  IF resp = NoResp THEN NoUrl
  ELSE IF IsImageCtype(resp.ctype) THEN page_url
  ELSE ExtractOf[resp.html][page_url]

Attempt(candidate_url, stem, fs, dl) ==
  IF candidate_url = NoUrl THEN Unresolved(fs)
  ELSE ProcessCandidate(candidate_url, stem, fs, dl)

\* The page asked for a second time.
FetchedTwice(page_url, page, r) ==
  [r EXCEPT !.log = <<Ev("fetch", page_url), Ev("fetch", page_url)>> \o @,
            !.asked = {<<"GET", page_url, page>>} \cup @]

Fetched(page_url, page, r) ==
  [r EXCEPT !.log = <<Ev("fetch", page_url)>> \o @,
            !.asked = {<<"GET", page_url, page>>} \cup @]

ResolveAt(page_url, p, fs, env) ==
  Fetched(page_url, env.page,
          Attempt(Candidate(page_url, fetch(env.page)), PidStem(p), fs, env.dl))

\* Lines 289-343: one ID resolved.
Resolve(p, fs, env) ==
  ResolveAt(PageUrlOf[<<args.base_url, args.category>>][p], p, fs, env)

HasOp(lg, ops) == \E i \in 1..Len(lg) : lg[i].op \in ops

WriteFailed(lg) == HasOp(lg, {"open_failed", "write_failed"})

Touches(lg) == HasOp(lg, {"open", "write", "write_failed", "unlink"})

\* Lines 345-351, 356 and 455-459: the report of an outcome.
Report(o) ==
  IF o = "OK" THEN <<Ev("print", IF args.dry_run THEN "[OK-DRY]" ELSE "[OK]")>>
  ELSE IF o = "MISS" THEN <<Ev("print", "[MISS]")>>
  ELSE << >>

\* Lines 285-366: one turn of the loop, r being what Resolve gave.
Turn(page, r) ==
  \E o \in {Outcome(r.ok, r.skipped)} : \E m \in {MissesAfter(o, misses)} :
    /\ total_seen' = total_seen + 1
    /\ total_ok' = TotalOkAfter(o, total_ok)
    /\ misses' = m
    /\ files' = r.files
    /\ outcomes' = Append(outcomes, [id |-> pid, outcome |-> o])
    /\ last' = [id |-> pid, page |-> page, candidate |-> r.candidate,
                reason |-> r.reason, outcome |-> o, download |-> r.download,
                fname |-> r.fname, existed |-> r.existed]
    /\ wfail' = (wfail \/ WriteFailed(r.log))
    /\ touched' = (touched \/ Touches(r.log))
    /\ IF MissThreshold(args.end_pid, m, args.max_misses)
       THEN /\ pc' = "StoppedByMisses"
            /\ exit' = Some(0)
            /\ pid' = pid
            /\ log' = r.log \o Report(o) \o <<Ev("print", "stop"), Ev("print", "Hecho")>>
       ELSE /\ pc' = "Running"
            /\ exit' = exit
            /\ pid' = pid + 1
            /\ log' = r.log \o Report(o) \o Pause(args.delay)

Iteration(page, r) ==
  /\ pc = "Running"
  /\ pid <= MaxPid
  /\ ~RangeExceeded(args.end_pid, pid)
  /\ Turn(page, r)
  /\ UNCHANGED <<args, stderr, out_dir, listVars, histVars, callVars>>

\* Lines 286-287 and 368: the end ID is passed.
RangeBreak ==
  /\ pc = "Running"
  /\ RangeExceeded(args.end_pid, pid)
  /\ pc' = "StoppedByRange"
  /\ exit' = Some(0)
  /\ log' = <<Ev("print", "Hecho")>>
  /\ UNCHANGED <<args, stderr, out_dir, files, crawlVars, listVars, last, outcomes,
                 histVars, callVars, wfail, touched, served>>

\* The download environments an iteration can tell apart: one when no download
\* is reached.
DownloadEnvsFor(reached) == IF reached THEN DownloadEnvs ELSE {NoDownload}

\* Whether the candidate passes the filter of a run that downloads.
Wanted(candidate_url) ==
  candidate_url # NoUrl /\ ~args.dry_run /\ VerdictOf[TheFilter][candidate_url].ok

ReachesDownload(p, page) ==
  Wanted(Candidate(PageUrlOf[<<args.base_url, args.category>>][p], fetch(page)))

CrawlIteration ==
  /\ pc = "Running"
  /\ \E page \in PageAnswers :
       \E dl \in DownloadEnvsFor(ReachesDownload(pid, page)) :
         \E r \in {Resolve(pid, files, [page |-> page, dl |-> dl])} :
           Iteration(page, r) /\ UNCHANGED served

\* ------------------------------------------------------------ crawl_list_page
\* Lines 386-437: the directory, the one fetch and the candidates.
ListStart ==
  /\ pc = "crawl_list_page"
  /\ out_dir' = TRUE
  /\ \E a \in ListAnswers :
       /\ last' = [NoLast EXCEPT !.page = a]
       /\ IF fetch(a) = NoResp
          THEN /\ pc' = "ListFailed"
               /\ exit' = Some(0)
               /\ candidates' = << >>
               /\ log' = <<Ev("mkdir", "out"), Ev("fetch", args.base_url),
                           Ev("print", "[ERR]")>>
          ELSE /\ pc' = "ListRunning"
               /\ exit' = exit
               /\ candidates' = ListCandidatesOf[a]
               /\ log' = <<Ev("mkdir", "out"), Ev("fetch", args.base_url)>>
  /\ idx' = 0 /\ matched' = 0 /\ downloaded' = 0
  /\ UNCHANGED <<args, stderr, files, crawlVars, outcomes, histVars, callVars, wfail,
                 touched, served>>

\* Lines 444-459: what the loop prints for a candidate.
ListOutcome(r) ==
  IF r.skipped THEN "SKIP"
  ELSE IF r.download = "none" THEN "MATCH"
  ELSE IF r.ok THEN "OK" ELSE "MISS"

\* Lines 439-462: one candidate of the listing.
ListStep ==
  /\ pc = "ListRunning"
  /\ idx < Len(candidates)
  /\ \E url \in {candidates[idx + 1]} :
       \E dl \in DownloadEnvsFor(Wanted(url)) :
         \E r \in {ProcessCandidate(url, ListStem(idx), files, dl)} :
           \E o \in {ListOutcome(r)} :
             /\ matched' = IF r.skipped THEN matched ELSE matched + 1
             /\ downloaded' = IF o = "OK" THEN downloaded + 1 ELSE downloaded
             /\ files' = r.files
             /\ outcomes' = Append(outcomes, [id |-> idx, outcome |-> o])
             /\ last' = [id |-> idx, page |-> last.page, candidate |-> url,
                         reason |-> r.reason, outcome |-> o, download |-> r.download,
                         fname |-> r.fname, existed |-> r.existed]
             /\ wfail' = (wfail \/ WriteFailed(r.log))
             /\ touched' = (touched \/ Touches(r.log))
             /\ log' = IF r.skipped THEN r.log
                       ELSE r.log
                            \o (IF o \in {"OK", "MISS"}
                                THEN <<Ev("print", IF o = "OK" THEN "[OK]" ELSE "[MISS]")>>
                                ELSE << >>)
                            \o Pause(args.delay)
  /\ idx' = idx + 1
  /\ UNCHANGED <<args, pc, exit, stderr, out_dir, candidates, crawlVars, histVars, callVars,
                 served>>

\* Line 464: the loop is over.
ListDone ==
  /\ pc = "ListRunning"
  /\ idx = Len(candidates)
  /\ pc' = "ListDone"
  /\ exit' = Some(0)
  /\ log' = <<Ev("print", "Hecho")>>
  /\ UNCHANGED <<args, stderr, out_dir, files, crawlVars, listVars, last, outcomes,
                 histVars, callVars, wfail, touched, served>>

Next ==
  \/ Main
  \/ CrawlStart
  \/ CrawlIteration
  \/ RangeBreak
  \/ ListStart
  \/ ListStep
  \/ ListDone

Spec == Init /\ [][Next]_vars

\* ------------------------------------------------------------ two runs
\* The crawl run twice into the same directory against a server that answers a
\* request the way it answered it before.
IdemArgs ==
  { Args("auto", BaseView, Nothing, Some(1), end, 0, mm, f, FALSE) :
      end \in {Nothing, Some(MaxPid - 1)}, mm \in 1..MaxMisses,
      f \in {Filter(<< >>, << >>, FALSE, "auto"),
             Filter(<< <<"S", "u", "n", "s", "e", "t">> >>, << >>, FALSE, "auto")} }

IdemInit ==
  /\ args \in IdemArgs
  /\ Fresh
  /\ files = EmptyDir
  /\ out_dir = FALSE
  /\ run = 1
  /\ prev = [files |-> EmptyDir, wfail |-> FALSE]
  /\ served = {}

SameAnswers(asked) ==
  \A x \in asked : \A y \in asked : (x[1] = y[1] /\ x[2] = y[2]) => x[3] = y[3]

\* A part of the answers and of the failures, so that two runs stay small.
IdemPageAnswers ==
  { Resp(200, "image/jpeg", NoDoc), Resp(200, "text/html", DocImg),
    Resp(404, "text/html", NoDoc) }

IdemDownloadEnvs ==
  { e \in DownloadEnvs :
      /\ e.head \in {Resp(200, "image/jpeg", NoDoc), Exc}
      /\ e.get \in {Resp(200, "image/jpeg", NoDoc), Resp(404, "text/html", NoDoc)}
      /\ e.write \in {"ok", "fails_midway"} }

IdemIteration ==
  /\ pc = "Running"
  /\ \E page \in IdemPageAnswers :
       \E dl \in IF ReachesDownload(pid, page) THEN IdemDownloadEnvs ELSE {NoDownload} :
         \E r \in {Resolve(pid, files, [page |-> page, dl |-> dl])} :
           /\ SameAnswers(served \cup r.asked)
           /\ Iteration(page, r)
           /\ served' = served \cup r.asked

\* The program is started again with the same command line.
Rerun ==
  /\ pc \in {"StoppedByMisses", "StoppedByRange"}
  /\ run = 1
  /\ run' = 2
  /\ prev' = [files |-> files, wfail |-> wfail]
  /\ pc' = "main"
  /\ exit' = Nothing
  /\ pid' = 0 /\ misses' = 0 /\ total_ok' = 0 /\ total_seen' = 0
  /\ last' = NoLast
  /\ log' = << >>
  /\ outcomes' = << >>
  /\ wfail' = FALSE
  /\ touched' = FALSE
  /\ UNCHANGED <<args, stderr, out_dir, files, listVars, served, callVars>>

IdemNext ==
  \/ Main
  \/ CrawlStart
  \/ IdemIteration
  \/ RangeBreak
  \/ Rerun

IdemSpec == IdemInit /\ [][IdemNext]_vars

\* ------------------------------------------------------------ the helpers on their own
\* eval_keywords and guess_ext applied to arguments of their own: a call is made
\* and returns.
KeywordUrls ==
  { <<"/", "w", "/", "s", "u", "n", "s", "e", "t", ".", "J", "P", "G", "?", "r", "a", "i", "n", "y">>,
    <<"/", "a", "l", "b", "u", "m", "s", "/", "r", "a", "i", "n", "y", "/", "f", "u", "l", "l", ".", "p", "n", "g">>,
    <<"/", "g", "/", "s", "u", "n", "s", "e", "t", "%", "2", "0", "f", "u", "l", "l", ".", "J", "P", "G">> }

\* The terms of a keyword list, as parse_keywords gives them: normalized, not empty.
KeywordTerms ==
  { <<"s", "u", "n", "s", "e", "t">>,
    <<"r", "a", "i", "n", "y">>,
    <<"f", "u", "l", "l">> }

KeywordLists ==
  {<< >>} \cup {<<t>> : t \in KeywordTerms}
  \cup {<<t, u>> : t \in KeywordTerms, u \in KeywordTerms}

KeywordCalls ==
  [fn : {"eval_keywords"}, img_url : KeywordUrls, includes : KeywordLists,
   excludes : KeywordLists, any_mode : BOOLEAN, target : {"url", "filename"}]

ExtUrls ==
  { <<"/", "w", "/", "a", ".", "p", "n", "g">>,
    <<"/", "w", "/", "s", "u", "n", "s", "e", "t", ".", "J", "P", "G", "?", "x">>,
    <<"/", "w", "/", "f", "u", "l", "l">>,
    <<"/", "a", ".", "b", "/", "c">>,
    <<"/", "w", "/", "a", ".">>,
    <<"/", "w", "/", "a", ".", "a", "b", "_", "c", "d">>,
    <<"/", "w", "/", "a", ".", "a", "b", "_", "c", "d", "e">>,
    <<"/", "w", "/", "a", ".", "p", "-", "g">>,
    <<"/", "w", "/", "x", "?", "f", "=", "a", ".", "p", "n", "g">>,
    <<"/", "g", "/", "d", ".", "p", "h", "p", "?", "p", "i", "d", "=", "1">> }

ExtContentTypes ==
  ContentTypes \cup {None, "image/jpg", "image/gif", "image/webp", "image/bmp",
                     "image/tiff"}

ExtCalls == [fn : {"guess_ext"}, url : ExtUrls, content_type : ExtContentTypes]

CallInit ==
  /\ \/ call \in KeywordCalls
     \/ call \in ExtCalls
  /\ result = None
  /\ pc = "call"
  /\ args = None
  /\ exit = Nothing
  /\ stderr = FALSE
  /\ files = EmptyDir
  /\ out_dir = FALSE
  /\ pid = 0 /\ misses = 0 /\ total_ok = 0 /\ total_seen = 0
  /\ candidates = << >> /\ idx = 0 /\ matched = 0 /\ downloaded = 0
  /\ last = NoLast
  /\ log = << >>
  /\ outcomes = << >>
  /\ wfail = FALSE
  /\ touched = FALSE
  /\ run = 1
  /\ prev = [files |-> EmptyDir, wfail |-> FALSE]
  /\ served = {}

Returns(value) ==
  /\ result' = value
  /\ pc' = "returned"
  /\ UNCHANGED <<args, exit, stderr, out_dir, files, crawlVars, listVars, last, log,
                 outcomes, histVars, wfail, touched, served, call>>

CallEvalKeywords ==
  /\ pc = "call"
  /\ call.fn = "eval_keywords"
  /\ Returns(eval_keywords(call.img_url, call.includes, call.excludes, call.any_mode,
                           call.target))

CallGuessExt ==
  /\ pc = "call"
  /\ call.fn = "guess_ext"
  /\ Returns(guess_ext(call.url, call.content_type))

CallNext ==
  \/ CallEvalKeywords
  \/ CallGuessExt

CallSpec == CallInit /\ [][CallNext]_vars

\* ------------------------------------------------------------ properties
RangeRun == args.mode # "list" /\ args.start_pid # Nothing

\* The state is the one a candidate has just been processed in.
CandidateDone ==
  /\ pc \in {"Running", "StoppedByMisses", "ListRunning"}
  /\ last.outcome # None

\* The step processes a candidate.
RangeStep == RangeRun /\ pc = "Running" /\ total_seen' = total_seen + 1
ListingStep == args.mode = "list" /\ pc = "ListRunning" /\ idx' = idx + 1

FileOps == {"open", "write", "open_failed", "write_failed", "unlink", "unlink_failed"}

Sleeps(lg) == {i \in 1..Len(lg) : lg[i].op = "sleep"}

EndsWithSleep(lg, delay) ==
  /\ Sleeps(lg) = {Len(lg)}
  /\ lg[Len(lg)].arg = delay

Terminal == {"StoppedByMisses", "StoppedByRange"}

\* The misses in a row at the end of a sequence of outcomes: those after the
\* last OK, a SKIP being no part of the streak.
MissStreak(os) ==
  Cardinality({i \in 1..Len(os) :
                 /\ os[i].outcome = "MISS"
                 /\ \A j \in i..Len(os) : os[j].outcome # "OK"})

\* The miss streak while running and at the stop.
C1_Stopped ==
  (RangeRun /\ args.end_pid = Nothing /\ args.max_misses >= 1) =>
    /\ pc = "Running" => MissStreak(outcomes) < args.max_misses
    /\ pc = "StoppedByMisses" =>
         /\ MissStreak(outcomes) = args.max_misses
         /\ misses = args.max_misses
         /\ outcomes[Len(outcomes)].outcome = "MISS"
         /\ \A i \in 1..Len(outcomes) : outcomes[i].id = args.start_pid[1] + i - 1
         /\ outcomes[Len(outcomes)].id = pid
         /\ total_seen = Len(outcomes)
         /\ exit = Some(0)

\* Nothing follows the stop.
C1_NoStepAfterStop ==
  ~(RangeRun /\ args.end_pid = Nothing /\ pc = "StoppedByMisses")

\* C1: in range mode with no end ID and max_misses = N >= 1, the crawl is running
\* only while fewer than N misses are in a row, and it has stopped on the misses
\* exactly when the outcome of the last ID is the N-th MISS in a row: the IDs
\* tried are start, start+1, ... up to the ID of that miss, and no step is taken
\* after the stop.
C1_StopsAtNthMiss == []C1_Stopped /\ [][C1_NoStepAfterStop]_vars

\* An OK, then MaxMisses misses in a row, and the crawl has stopped.
C1_Witness ==
  /\ RangeRun /\ args.end_pid = Nothing /\ args.max_misses = MaxMisses
  /\ pc = "StoppedByMisses"
  /\ total_ok >= 1

\* A range step whose candidate the filter rejects.
C2_SkipStep ==
  (RangeStep /\ last'.candidate # NoUrl /\ ~VerdictOf[TheFilter][last'.candidate].ok) =>
    /\ last'.outcome = "SKIP"
    /\ misses' = misses
    /\ total_ok' = total_ok
    /\ files' = files
    /\ last'.download = "none"
    /\ ~HasOp(log', {"HEAD", "GET"} \cup FileOps)

\* C2: in range mode a step whose candidate the filter rejects ends in SKIP,
\* leaves the miss counter, the downloaded counter and the directory as they
\* were, and asks no HEAD, no image GET and no file operation.
C2_SkipLeavesCounters == [][C2_SkipStep]_vars

\* A miss, then a discard: the miss is still counted.
C2_Witness ==
  /\ RangeRun /\ pc = "Running"
  /\ last.outcome = "SKIP"
  /\ misses = 1

\* A step that asks the download of a name the directory has.
C3_ExistingStep ==
  ((RangeStep \/ ListingStep) /\ last'.download # "none" /\ last'.fname \in DOMAIN files) =>
    /\ last'.download = "ok"
    /\ last'.outcome = "OK"
    /\ files' = files
    /\ ~HasOp(log', {"GET"} \cup FileOps)
    /\ RangeStep => total_ok' = total_ok + 1 /\ misses' = 0
    /\ ListingStep => downloaded' = downloaded + 1

\* C3: a step that calls download_image for a name that is in the directory
\* gets success, asks no GET, leaves the directory as it was, and counts the
\* candidate as OK: the downloaded counter goes up by one and, in range mode, the
\* miss counter goes to zero.
C3_ExistingFileIsOk == [][C3_ExistingStep]_vars

\* After a miss, the file of an ID is found in the directory.
C3_Witness ==
  /\ RangeRun
  /\ last.existed /\ last.download = "ok" /\ last.outcome = "OK"
  /\ Len(outcomes) = 2 /\ outcomes[1].outcome = "MISS"
  /\ misses = 0 /\ total_ok = 1
  /\ files = OldDir

\* C4: when download_image, called with no file at the path, returns false, no
\* file is at the path.
C4_NoFileAfterFailure ==
  (CandidateDone /\ last.download = "failed" /\ ~last.existed) =>
    last.fname \notin DOMAIN files

C6_ExactRange ==
  (RangeRun /\ args.end_pid # Nothing /\ pc \in {"Running"} \cup Terminal) =>
    /\ pc # "StoppedByMisses"
    /\ \A i \in 1..Len(outcomes) :
         /\ outcomes[i].id = args.start_pid[1] + i - 1
         /\ outcomes[i].id <= args.end_pid[1]
    /\ pid = args.start_pid[1] + Len(outcomes)
    /\ total_seen = Len(outcomes)
    /\ pc = "StoppedByRange" =>
         /\ pid > args.end_pid[1]
         /\ args.start_pid[1] <= args.end_pid[1] =>
              Len(outcomes) = args.end_pid[1] - args.start_pid[1] + 1
         /\ exit = Some(0)

\* More misses in a row than max_misses, and the crawl went on to the end ID.
C6_Witness ==
  /\ RangeRun /\ args.end_pid = Some(MaxPid - 1)
  /\ pc = "StoppedByRange"
  /\ args.max_misses = 1
  /\ misses = 2

\* C7: with the base .../displayimage.php, no filter and no dry run, a page
\* answered 200 image/jpeg is its own candidate, and a download of it that
\* succeeds leaves the file pid_{id}.jpg and is reported OK.
C7_DirectImageIsJpg ==
  ( /\ RangeRun /\ CandidateDone
    /\ args.base_url = BaseDisplay
    /\ args.include = << >> /\ args.exclude = << >> /\ ~args.dry_run
    /\ last.page = Resp(200, "image/jpeg", NoDoc) ) =>
      /\ last.candidate = PageUrlOf[<<args.base_url, args.category>>][last.id]
      /\ last.download = "ok" =>
           /\ last.outcome = "OK"
           /\ last.fname = PidStem(last.id) \o <<".", "j", "p", "g">>
           /\ last.fname \in DOMAIN files

\* C8: listing mode fetches the one page; its candidates are the image-like URLs
\* of the img sources and links of the page, each once; the candidates are
\* processed in order, each once, with no fetch of a page; and the run is over
\* only when all of them are, whatever their outcomes.
C8_ListOnce ==
  (args.mode = "list" /\ pc \in {"ListRunning", "ListDone"}) =>
    /\ \A i \in 1..Len(candidates) : \A j \in 1..Len(candidates) :
         i # j => candidates[i] # candidates[j]
    /\ ~IsImageCtype(last.page.ctype) =>
         Range(candidates) = {h \in Hrefs(last.page.html, args.base_url) : ImageLike(h)}
    /\ idx <= Len(candidates)
    /\ Len(outcomes) = idx
    /\ \A i \in 1..Len(outcomes) : outcomes[i].id = i - 1
    /\ (pc = "ListRunning" /\ last.outcome # None) =>
         /\ last.candidate = candidates[idx]
         /\ ~HasOp(log, {"fetch"})
    /\ pc = "ListDone" => idx = Len(candidates)
    /\ misses = 0

\* A listing of two images, both downloads failed, and the run over.
C8_Witness ==
  /\ args.mode = "list" /\ pc = "ListDone"
  /\ Len(candidates) = 2
  /\ matched = 2 /\ downloaded = 0 /\ ~args.dry_run

C10_Step ==
  RangeStep =>
    /\ last'.outcome \in {"OK", "SKIP", "MISS"}
    /\ outcomes' = Append(outcomes, [id |-> pid, outcome |-> last'.outcome])
    /\ fetch(last'.page) = NoResp => last'.outcome = "MISS"
    /\ ( /\ fetch(last'.page) # NoResp
         /\ ~IsImageCtype(last'.page.ctype)
         /\ ExtractOf[last'.page.html][PageUrlOf[<<args.base_url, args.category>>][pid]]
              = NoUrl ) => last'.outcome = "MISS"
    /\ last'.download = "failed" => last'.outcome = "MISS"
    /\ \/ pc' = "Running" /\ pid' = pid + 1 /\ exit' = Nothing
       \/ /\ pc' = "StoppedByMisses" /\ exit' = Some(0)
          /\ args.end_pid = Nothing /\ misses' >= args.max_misses
    /\ stderr' = stderr

\* C10: a range step ends in OK, SKIP or MISS; it is MISS when the page is not
\* fetched, when the page gives no image URL and when the download fails; and
\* after it the crawl is at the next ID, or has stopped on the misses with no end
\* ID given, with no error.
C10_EveryFailureIsAMiss == [][C10_Step]_vars

\* A download failed, the ID is a miss and the crawl is at the next ID.
C10_Witness ==
  /\ RangeRun /\ pc = "Running"
  /\ last.outcome = "MISS" /\ last.download = "failed"
  /\ pid = last.id + 1

\* A step of a dry run that processes a candidate.
C11_DryStep ==
  ((RangeStep \/ ListingStep) /\ args.dry_run) =>
    /\ ~HasOp(log', {"HEAD", "GET"} \cup FileOps)
    /\ files' = files
    /\ last'.download = "none"
    /\ ~touched'
    /\ (last'.candidate # NoUrl /\ VerdictOf[TheFilter][last'.candidate].ok) =>
         /\ RangeStep => last'.outcome = "OK" /\ misses' = 0 /\ total_ok' = total_ok + 1
         /\ ListingStep => last'.outcome = "MATCH" /\ matched' = matched + 1
    /\ (last'.candidate # NoUrl /\ ~VerdictOf[TheFilter][last'.candidate].ok) =>
         last'.outcome = "SKIP"

\* C11: in a dry run, range or listing, a step that processes a candidate asks
\* no HEAD and no image GET and creates, writes and deletes no file; the filter
\* is applied as usual, and in range mode a candidate that passes it is OK and
\* puts the miss counter to zero.
C11_DryRunDownloadsNothing == [][C11_DryStep]_vars

\* A miss, then a match of a dry run over a directory with files: the match is
\* counted OK, the misses are zero and the files are the same.
C11_Witness ==
  /\ RangeRun /\ args.dry_run
  /\ Len(outcomes) = 2 /\ outcomes[1].outcome = "MISS"
  /\ last.outcome = "OK" /\ last.candidate # NoUrl
  /\ misses = 0 /\ total_ok = 1
  /\ files = OldDir

\* eval_keywords has returned from the call.
KeywordsReturned == pc = "returned" /\ call.fn = "eval_keywords"

\* The normalized target of the call, and the terms of a list found in it.
CallTarget ==
  normalize_for_match(IF call.target = "filename"
                      THEN Basename(UrlPath(call.img_url))
                      ELSE UrlPath(call.img_url))

FoundIn(terms) == {i \in 1..Len(terms) : Contains(CallTarget, terms[i])}

\* C12: when the normalized target contains an exclude term, eval_keywords fails
\* with the reason "excluded" and the first exclude term, in the order of the
\* list, that the target contains, whatever include terms it contains and in
\* either match mode.
C12_ExcludeWins ==
  (KeywordsReturned /\ FoundIn(call.excludes) # {}) =>
    /\ ~result.ok
    /\ result.reason = "excluded"
    /\ \E i \in FoundIn(call.excludes) :
         /\ \A j \in FoundIn(call.excludes) : i <= j
         /\ result.ex = call.excludes[i]

\* Every include term is in the target and so is the second exclude term, not
\* the first: the verdict is the exclusion by the second.
C12_Witness ==
  /\ KeywordsReturned
  /\ Len(call.includes) = 2 /\ FoundIn(call.includes) = {1, 2}
  /\ FoundIn(call.excludes) = {2}
  /\ ~result.ok /\ result.ex = call.excludes[2]

\* C13: when the normalized target contains no exclude term, with hits the
\* number of include terms it contains: an empty include list passes; a list that
\* is not empty passes in "any" mode exactly when hits >= 1 and in "all" mode
\* exactly when hits is the number of include terms.
C13_IncludeRule ==
  (KeywordsReturned /\ FoundIn(call.excludes) = {}) =>
    /\ call.includes = << >> => result.ok
    /\ (call.includes # << >> /\ call.any_mode) =>
         (result.ok <=> Cardinality(FoundIn(call.includes)) >= 1)
    /\ (call.includes # << >> /\ ~call.any_mode) =>
         (result.ok <=> Cardinality(FoundIn(call.includes)) = Len(call.includes))
    /\ call.includes # << >> => result.hits = Cardinality(FoundIn(call.includes))
    /\ result.ok <=> result.reason = "ok"

\* One of two include terms is in the target and no exclude term is, in "all"
\* mode: the verdict is a failure with one hit.
C13_Witness ==
  /\ KeywordsReturned
  /\ ~call.any_mode
  /\ Len(call.includes) = 2 /\ Cardinality(FoundIn(call.includes)) = 1
  /\ call.excludes # << >> /\ FoundIn(call.excludes) = {}
  /\ ~result.ok /\ result.hits = 1

\* guess_ext has returned from the call.
ExtReturned == pc = "returned" /\ call.fn = "guess_ext"

\* The path of the call's URL from its last dot on, empty when it has no dot.
DotSegment ==
  IF \E i \in 1..Len(UrlPath(call.url)) : UrlPath(call.url)[i] = "."
  THEN SubSeq(UrlPath(call.url), RFind(UrlPath(call.url), "."), Len(UrlPath(call.url)))
  ELSE << >>

\* At most 6 characters, each alphanumeric, a dot or an underscore.
ShortPlain(seg) ==
  /\ seg # << >>
  /\ Len(seg) <= 6
  /\ \A i \in 1..Len(seg) : IsAlnum(seg[i]) \/ seg[i] \in {".", "_"}

\* The extension of a known image content type, empty for any other.
KnownImageExt(content_type) ==
  IF content_type \in {None, ""} THEN << >>
  ELSE IMG_EXT_FROM_CTYPE(CtMain(content_type))

\* What guess_ext returns when the URL's segment is not taken.
ExtWithoutUrl(content_type) ==
  IF KnownImageExt(content_type) # << >> THEN KnownImageExt(content_type)
  ELSE <<".", "j", "p", "g">>

\* C14 as stated: a short plain segment of the URL is the result as it stands.
C14_SegmentAsWritten ==
  ExtReturned =>
    /\ ShortPlain(DotSegment) => result = DotSegment
    /\ ~ShortPlain(DotSegment) => result = ExtWithoutUrl(call.content_type)
    /\ result # << >> /\ result[1] = "."

\* C14: guess_ext prefers the URL: a short plain segment of the URL's path, in
\* lower case, is the result whatever the content type; only otherwise is a
\* known image content type mapped, and otherwise the result is .jpg; the result
\* is never empty and starts with a dot.
C14_SegmentLowered ==
  ExtReturned =>
    /\ ShortPlain(DotSegment) => result = Lower(DotSegment)
    /\ ~ShortPlain(DotSegment) => result = ExtWithoutUrl(call.content_type)
    /\ result # << >> /\ result[1] = "."

\* A URL ending in .JPG with the content type of a PNG: the result is .jpg.
C14_Witness ==
  /\ ExtReturned
  /\ DotSegment = <<".", "J", "P", "G">>
  /\ KnownImageExt(call.content_type) = <<".", "p", "n", "g">>
  /\ result = <<".", "j", "p", "g">>

\* C15: started outside listing mode with no start ID, the program writes a
\* diagnostic to the error stream and exits with a status that is not zero; it
\* has then asked nothing of the server and the output directory and its files
\* are as they were when it started.
C15_NoStartIsAnError ==
  (args.mode # "list" /\ args.start_pid = Nothing) =>
    /\ pc \in {"main", "exit"}
    /\ pc = "main" => exit = Nothing /\ ~stderr
    /\ pc = "exit" => exit # Nothing /\ exit[1] # 0 /\ stderr
    /\ out_dir = (files # EmptyDir)
    /\ files \in {EmptyDir, OldDir}
    /\ ~HasOp(log, {"mkdir", "fetch", "HEAD", "GET"})
    /\ total_seen = 0 /\ served = {} /\ ~touched

\* The program has exited on the missing start ID, with no output directory.
C15_Witness ==
  /\ args.mode # "list" /\ args.start_pid = Nothing
  /\ pc = "exit" /\ exit = Some(2) /\ stderr
  /\ ~out_dir

\* What an outcome does to the miss counter.
C16_Step ==
  RangeStep =>
    /\ last'.outcome = "OK" => misses' = 0
    /\ last'.outcome = "MISS" => misses' = misses + 1
    /\ last'.outcome = "SKIP" => misses' = misses

\* C16: in range mode the miss counter is, after any number of iterations, the
\* number of MISS outcomes since the last OK, or since the start when there was
\* none: an OK puts it to zero, a MISS adds one and a SKIP leaves it.
C16_MissCounter == [](RangeRun => misses = MissStreak(outcomes)) /\ [][C16_Step]_vars

\* The outcomes MISS, SKIP, MISS leave the counter at 2.
C16_Witness ==
  /\ RangeRun
  /\ Len(outcomes) = 3
  /\ outcomes[1].outcome = "MISS" /\ outcomes[2].outcome = "SKIP"
  /\ outcomes[3].outcome = "MISS"
  /\ misses = 2

\* A range iteration is over and its log is the log of the state.
RangeDone ==
  RangeRun /\ pc \in {"Running", "StoppedByMisses"} /\ last.outcome # None

\* The positions of the log where one of the operations is asked.
Asks(lg, ops) == {i \in 1..Len(lg) : lg[i].op \in ops}

\* The positions where the server is asked for the URL with a GET.
Gets(lg, url) == {i \in Asks(lg, {"fetch", "GET"}) : lg[i].arg = url}

LastPageUrl == PageUrlOf[<<args.base_url, args.category>>][last.id]

\* The IDs are tried in ascending order, each once, and the iteration asks at
\* most one HEAD and one image GET, after the page and before the file.
C17_InOrder ==
  /\ \A i \in 1..Len(outcomes) : outcomes[i].id = args.start_pid[1] + i - 1
  /\ last.id = outcomes[Len(outcomes)].id
  /\ Asks(log, {"fetch"}) = {1} /\ log[1].arg = LastPageUrl
  /\ Cardinality(Asks(log, {"HEAD"})) <= 1
  /\ Cardinality(Asks(log, {"GET"})) <= 1
  /\ \A i \in Asks(log, {"HEAD", "GET"}) : log[i].arg = last.candidate
  /\ \A i \in Asks(log, {"HEAD"}) : \A j \in Asks(log, {"GET"}) : i < j
  /\ \A i \in Asks(log, {"HEAD", "GET"}) : \A j \in Asks(log, FileOps) : i < j
  /\ \A i \in Asks(log, FileOps) : log[i].arg = last.fname

\* C17 as stated: the page URL of an ID is asked for once.
C17_PageAskedOnce ==
  RangeDone => (C17_InOrder /\ Cardinality(Gets(log, LastPageUrl)) = 1)

\* C17: in a range run the IDs are tried in ascending order, one at a time and
\* each once; an iteration fetches the page of its ID once, then asks at most one
\* HEAD and one GET of the image, then works on the file, and nothing of an ID is
\* left to do when the next begins; the page URL is asked for a second time only
\* when the page is itself the image and the download gets it.
C17_PageAskedOnceUnlessImage ==
  RangeDone =>
    /\ C17_InOrder
    /\ Cardinality(Gets(log, LastPageUrl)) =
         IF last.candidate = LastPageUrl /\ Asks(log, {"GET"}) # {} THEN 2 ELSE 1

\* A page that is an image, downloaded: fetch, HEAD, GET, open and write.
C17_Witness ==
  /\ RangeDone
  /\ last.candidate = LastPageUrl
  /\ last.download = "ok" /\ ~last.existed
  /\ Len(outcomes) = 2
  /\ Cardinality(Gets(log, LastPageUrl)) = 2
  /\ Asks(log, FileOps) # {}

\* A range step of a crawl with no end ID and a threshold of at least one miss.
C18_Step ==
  (RangeStep /\ args.end_pid = Nothing /\ args.max_misses >= 1) =>
    /\ pc' \in {"Running", "StoppedByMisses"}
    /\ pc' = "StoppedByMisses" <=>
         (last'.outcome = "MISS" /\ MissStreak(outcomes') >= args.max_misses)
    /\ last'.outcome \in {"OK", "SKIP"} => (pc' = "Running" /\ exit' = Nothing)

\* A running crawl with no end ID has a next iteration to make.
C18_GoesOn ==
  (RangeRun /\ args.end_pid = Nothing /\ args.max_misses >= 1
     /\ pc = "Running" /\ pid <= MaxPid) => ENABLED CrawlIteration

\* C18: in range mode with no end ID and max_misses >= 1, the crawl stops on the
\* misses in the iteration whose MISS is the max_misses-th since the last OK,
\* whatever SKIPs lie in between, and in no other; after an OK or a SKIP it is
\* running and has a next iteration to make.
C18_StopsOnlyOnMisses == [][C18_Step]_vars /\ []C18_GoesOn

\* The outcomes SKIP, MISS, MISS with max_misses = 2: the crawl has stopped.
C18_Witness ==
  /\ RangeRun /\ args.end_pid = Nothing /\ args.max_misses = 2
  /\ pc = "StoppedByMisses"
  /\ Len(outcomes) = 3
  /\ outcomes[1].outcome = "SKIP" /\ outcomes[2].outcome = "MISS"
  /\ outcomes[3].outcome = "MISS"

\* C19: in range mode with no end ID and max_misses <= 0 the stop test holds
\* after the first iteration whatever its outcome: the crawl tries the start ID,
\* that one only, and has then stopped on the misses, also when the outcome is OK.
C19_OneIteration ==
  (RangeRun /\ args.end_pid = Nothing /\ args.max_misses <= 0) =>
    /\ pc = "Running" => (outcomes = << >> /\ pid = args.start_pid[1])
    /\ pc # "StoppedByRange"
    /\ pc = "StoppedByMisses" =>
         /\ Len(outcomes) = 1
         /\ outcomes[1].id = args.start_pid[1]
         /\ pid = args.start_pid[1]
         /\ total_seen = 1
         /\ exit = Some(0)

\* The start ID is downloaded and the crawl has stopped, with no miss counted.
C19_Witness ==
  /\ RangeRun /\ args.end_pid = Nothing /\ args.max_misses = 0
  /\ pc = "StoppedByMisses"
  /\ last.outcome = "OK" /\ last.download = "ok"
  /\ misses = 0 /\ total_ok = 1

\* The number of iterations of the run that ended in the outcome.
CountOf(o) == Cardinality({i \in 1..Len(outcomes) : outcomes[i].outcome = o})

\* The counters of a range run against its outcomes.
C20_Counters ==
  (RangeRun /\ pc \in {"Running"} \cup Terminal) =>
    /\ total_seen = Len(outcomes)
    /\ total_seen = CountOf("OK") + CountOf("SKIP") + CountOf("MISS")
    /\ total_ok = CountOf("OK")
    /\ 0 <= total_ok /\ total_ok <= total_seen

\* A step of a range run changes a counter by one at most, and upwards.
C20_Step ==
  (RangeRun /\ pc \in {"Running"} \cup Terminal) =>
    /\ total_seen' \in {total_seen, total_seen + 1}
    /\ total_ok' \in {total_ok, total_ok + 1}
    /\ RangeStep => (total_ok' = total_ok + 1 <=> last'.outcome = "OK")

\* C20: at the end of every range iteration total_seen is the number of IDs
\* tried and the sum of the OK, SKIP and MISS counts, total_ok is the OK count
\* (files that were there and matches of a dry run included), and
\* 0 <= total_ok <= total_seen; an iteration adds at most one to each counter
\* and takes nothing from it.
C20_CountersMatchOutcomes == []C20_Counters /\ [][C20_Step]_vars

\* A miss, a match of a dry run and a discard: three seen, one counted as
\* downloaded and no file written.
C20_Witness ==
  /\ RangeRun /\ args.dry_run
  /\ Len(outcomes) = 3
  /\ outcomes[1].outcome = "MISS" /\ outcomes[2].outcome = "OK"
  /\ outcomes[3].outcome = "SKIP"
  /\ total_seen = 3 /\ total_ok = 1
  /\ files = OldDir /\ ~touched

====
